---------------------------- MODULE Spec2Model ----------------------------
(***************************************************************************)
(* Medtrack: dose schedule generation, dose classification and dose        *)
(* recording.                                                              *)
(*                                                                         *)
(* The store is the database of supabase/schema.sql (tables medications    *)
(* and dose_logs, function log_dose).  The clients are the helper logDose  *)
(* of the supabase client library and the handlers of the DoseLogging and  *)
(* Reminders pages.  Instants are whole seconds; a calendar day is DaySec  *)
(* seconds and local time is UTC.                                          *)
(***************************************************************************)
EXTENDS Integers, Sequences, FiniteSets, TLC

VARIABLES
    now,             \* the wall clock, in seconds
    medications_tbl, \* table medications: id -> row
    dose_logs,       \* table dose_logs: a set of rows, each with its own id
    tz,              \* seconds the clock of the browser is ahead of UTC
    tab,             \* one browser tab (a session and its request in flight)
    medications,     \* DoseLogging state: the fetched medications
    todaysLogs,      \* DoseLogging state: the fetched dose logs
    scheduledDoses,  \* DoseLogging state: the classified doses of today
    remMedications,  \* Reminders state medications
    doseLogs,        \* Reminders state: the fetched dose logs
    remScheduledDoses, \* Reminders state scheduledDoses
    summary,         \* what getAdherenceSummary of the client library got
    adherence,       \* Dashboard state adherence
    reports          \* Reports state: adherence, the date range, the error

vars == <<now, tz, medications_tbl, dose_logs, tab, medications, todaysLogs,
          scheduledDoses, remMedications, doseLogs, remScheduledDoses,
          summary, adherence, reports>>

storeVars == <<medications_tbl, dose_logs>>
logVars == <<medications, todaysLogs, scheduledDoses>>
remVars == <<remMedications, doseLogs, remScheduledDoses>>
sumVars == <<summary, adherence, reports>>
viewVars == <<logVars, remVars, sumVars>>

(***************************************************************************)
(* Bounds of the model.                                                    *)
(***************************************************************************)
MaxLogs == 2
MaxFreq == 4

(***************************************************************************)
(* Time.                                                                   *)
(***************************************************************************)
HourSec == 60 * 60
MinuteSec == 60
DaySec == 24 * HourSec

\* INTERVAL '4 hours' of log_dose, addHours(scheduledTime, 4) of the pages
GraceHours == 4

addHours(t, h) == t + h * HourSec

\* .slice(0, 16) of an ISO timestamp: the instant cut to its minute
slice16(t) == t \div MinuteSec

\* today.setHours(0, 0, 0, 0): the instant of the last midnight of the
\* browser's clock
startOfDay(t) == ((t + tz) \div DaySec) * DaySec - tz

(***************************************************************************)
(* Identities.  NULL is SQL NULL: auth.uid() of a request without a        *)
(* session, and the result of a SELECT ... INTO that finds no row.         *)
(***************************************************************************)
NULL == "NULL"
Users == {"u1", "u2"}
Sessions == Users \cup {NULL}
MedIds == {"m1"}
\* an id that is no row of medications
GhostMed == "m9"

(***************************************************************************)
(* The schema: columns and function arguments, row level security.         *)
(***************************************************************************)
DoseLogColumns == {"id", "medication_id", "timestamp_taken", "scheduled_time",
                   "taken_on_time", "reward_earned", "created_at"}

LogDoseArgs == {"p_medication_id", "p_scheduled_time", "p_actual_time"}

\* ALTER TABLE ... ENABLE ROW LEVEL SECURITY is issued for auth.users only:
\* the policies created on the other tables are not applied
RowSecurityTables == {"auth.users"}

\* WITH CHECK of "Users can insert own dose logs"
InsertPolicy(uid, med, meds) ==
    /\ med \in DOMAIN meds
    /\ uid # NULL
    /\ meds[med].user_id = uid

\* IF v_user_id != auth.uid(): a comparison with NULL is not true
NotAuthorized(v_user_id, uid) ==
    /\ v_user_id # NULL
    /\ uid # NULL
    /\ v_user_id # uid

\* v_taken_on_time := p_actual_time <= p_scheduled_time + INTERVAL '4 hours'
OnTime_lt(p_actual_time, p_scheduled_time) ==
    p_actual_time < addHours(p_scheduled_time, GraceHours)

OnTime(p_actual_time, p_scheduled_time) ==
    p_actual_time <= addHours(p_scheduled_time, GraceHours)

\* v_reward_earned := v_taken_on_time
RewardEarned(v_taken_on_time) == v_taken_on_time

\* gen_random_uuid(): rows are never deleted, so the count names a fresh id
NewId(logs) == Cardinality(logs) + 1

\* INSERT INTO dose_logs: medication_id REFERENCES medications(id); the table
\* declares no UNIQUE constraint, so nothing else can reject the row
InsertRow(row, logs, meds) ==
    IF row.medication_id \in DOMAIN meds
    THEN [res |-> "ok", logs |-> logs \cup {row}, row |-> row.id]
    ELSE [res |-> "fk_violation", logs |-> logs, row |-> 0]

\* log_dose(p_medication_id, p_scheduled_time, p_actual_time), one transaction
log_dose(p_medication_id, p_scheduled_time, p_actual_time, uid, logs, meds) ==
    LET v_user_id == IF p_medication_id \in DOMAIN meds
                     THEN meds[p_medication_id].user_id ELSE NULL
        v_taken_on_time == OnTime(p_actual_time, p_scheduled_time)
        v_reward_earned == RewardEarned(v_taken_on_time)
    IN IF NotAuthorized(v_user_id, uid)
       THEN [res |-> "not_authorized", logs |-> logs, row |-> 0]
       ELSE InsertRow([id |-> NewId(logs),
                       medication_id |-> p_medication_id,
                       timestamp_taken |-> p_actual_time,
                       scheduled_time |-> p_scheduled_time,
                       taken_on_time |-> v_taken_on_time,
                       reward_earned |-> v_reward_earned], logs, meds)

(***************************************************************************)
(* The requests the clients send.                                          *)
(***************************************************************************)
\* logDose of the client library
LogDoseHelperKeys == {"p_medication_id", "p_scheduled_time", "p_actual_time"}
\* supabase.rpc('log_dose', ...) of DoseLogging.handleLogDose
HandleLogDoseKeys == {"medication_id", "scheduled_time", "actual_time", "user_id"}
\* supabase.rpc('log_dose', ...) of Reminders.handleMarkAsTaken
HandleMarkAsTakenKeys == {"medication_id", "scheduled_time", "actual_time"}
\* supabase.from('dose_logs').insert(...) of DoseLogging.handleMarkAsMissed
HandleMarkAsMissedKeys == {"medication_id", "scheduled_time", "timestamp_taken",
                           "taken_on_time", "reward_earned", "missed", "user_id"}

Clients == {"logDose", "handleLogDose", "handleMarkAsTaken", "handleMarkAsMissed"}
ViewClients == Clients \ {"logDose"}

RequestKeys(client) ==
    CASE client = "logDose" -> LogDoseHelperKeys
      [] client = "handleLogDose" -> HandleLogDoseKeys
      [] client = "handleMarkAsTaken" -> HandleMarkAsTakenKeys
      [] client = "handleMarkAsMissed" -> HandleMarkAsMissedKeys

Endpoint(client) ==
    IF client = "handleMarkAsMissed" THEN "dose_logs" ELSE "rpc/log_dose"

\* POST /rpc/log_dose: the function is found by its argument names
ServeRpc(req, logs, meds) ==
    IF RequestKeys(req.client) # LogDoseArgs
    THEN [res |-> "no_function", logs |-> logs, row |-> 0]
    ELSE log_dose(req.med, req.sched, req.actual, req.uid, logs, meds)

\* POST /dose_logs: every key of the payload must be a column of the table;
\* the policy applies only if row level security is enabled on the table
ServeInsert(req, logs, meds) ==
    IF ~(RequestKeys(req.client) \subseteq DoseLogColumns)
    THEN [res |-> "no_column", logs |-> logs, row |-> 0]
    ELSE IF "dose_logs" \in RowSecurityTables
            /\ ~InsertPolicy(req.uid, req.med, meds)
    THEN [res |-> "not_authorized", logs |-> logs, row |-> 0]
    ELSE InsertRow([id |-> NewId(logs),
                    medication_id |-> req.med,
                    timestamp_taken |-> req.actual,
                    scheduled_time |-> req.sched,
                    taken_on_time |-> FALSE,
                    reward_earned |-> FALSE], logs, meds)

Serve(req, logs, meds) ==
    IF Endpoint(req.client) = "rpc/log_dose"
    THEN ServeRpc(req, logs, meds)
    ELSE ServeInsert(req, logs, meds)


(***************************************************************************)
(* Schedule arithmetic.  hour = 8 + (i * (16 / frequency)) is computed in  *)
(* binary floating point: each operation rounds its exact result to the    *)
(* nearest value with SigBits significant bits, ties to even.  A float is  *)
(* held as a whole number of units of 2^-(SigBits-1).  The significand of  *)
(* a JavaScript Number has 53 bits; with the 17 kept here every result     *)
(* below equals the 53-bit one for each frequency from 1 to 32.            *)
(***************************************************************************)
SigBits == 17

RECURSIVE Pow2(_)
Pow2(n) == IF n = 0 THEN 1 ELSE 2 * Pow2(n - 1)

FloatOne == Pow2(SigBits - 1)

\* the spacing of the floats around a value of x units
RECURSIVE FloatGrid(_)
FloatGrid(x) == IF x < 2 * FloatOne THEN 1 ELSE 2 * FloatGrid(x \div 2)

\* the float nearest to num / den units, ties to even
FloatRound(num, den) ==
    LET d == den * FloatGrid(num \div den)
        q == num \div d
        r == num % d
    IN IF 2 * r > d \/ (2 * r = d /\ q % 2 = 1)
       THEN (q + 1) * (d \div den)
       ELSE q * (d \div den)

\* a / b of two whole numbers
FloatDiv(a, b) == FloatRound(a * FloatOne, b)
\* i * x of a whole number and a float
FloatMul(i, x) == FloatRound(i * x, 1)
\* a + x of a whole number and a float
FloatAdd(a, x) == FloatRound(a * FloatOne + x, 1)
\* x % 1
FloatMod1(x) == x % FloatOne
\* Math.floor(x), and the truncation setHours applies to its arguments
FloatFloor(x) == x \div FloatOne

\* the first dose of a day is at 8 (AM), the doses are spread over 16 hours
FirstDoseHour == 8
DoseSpanHours == 16

\* const hour = 8 + (i * (16 / frequency))
hour(i, frequency) ==
    FloatAdd(FirstDoseHour, FloatMul(i, FloatDiv(DoseSpanHours, frequency)))

\* scheduledTime = new Date(today);
\* scheduledTime.setHours(Math.floor(hour), (hour % 1) * 60, 0, 0)
setHours(today, h) ==
    today + FloatFloor(h) * HourSec
          + FloatFloor(FloatMul(60, FloatMod1(h))) * MinuteSec

\* setHours moves today by an offset that depends on the dose alone: the
\* offsets of the doses of the frequencies of the model, computed once
SlotOffsets ==
    [frequency \in 1 .. MaxFreq |->
       [i \in 0 .. frequency |-> setHours(0, hour(i, frequency))]]

scheduledTimeOf(today, i, frequency) == today + SlotOffsets[frequency][i]

\* the scheduled instants of one medication on the day that starts at today
Occurrences(today, frequency) ==
    { scheduledTimeOf(today, i, frequency) : i \in 0 .. frequency - 1 }

(***************************************************************************)
(* The queries of the pages.  The SELECT policies are not applied (row     *)
(* level security is not enabled on medications and dose_logs), so a query *)
(* sees the rows of every user.                                            *)
(***************************************************************************)
\* the Reminders page looks 7 days ahead; a medication without end_date ends
\* "far in the future", 365 days from now
ReminderDays == 7
FarFutureDays == 365

addDays(t, n) == t + n * DaySec

\* date.setHours(23, 59, 59, 999), to the second
endOfDay(t) == startOfDay(t) + DaySec - 1

\* new Date().toISOString().split('T')[0]: the date, as a day number
toISODate(t) == t \div DaySec

\* end_date IS NULL: dates are day numbers from 0, so no date is negative
NoDate == 0 - 1

\* new Date(medication.start_date): midnight of a date
dateToInstant(date) == date * DaySec

\* ORDER BY name
Alphabet == <<"A", "B">>
NameRank(name) == CHOOSE k \in 1 .. Len(Alphabet) : Alphabet[k] = name

RECURSIVE orderByName(_)
orderByName(rows) ==
    IF rows = {} THEN <<>>
    ELSE LET first == CHOOSE r \in rows :
                        \A q \in rows : NameRank(r.name) <= NameRank(q.name)
         IN <<first>> \o orderByName(rows \ {first})

MedicationRows(meds) ==
    { [id |-> m, user_id |-> meds[m].user_id, name |-> meds[m].name,
       frequency_per_day |-> meds[m].frequency_per_day,
       start_date |-> meds[m].start_date, end_date |-> meds[m].end_date] :
      m \in DOMAIN meds }

\* DoseLogging.fetchMedications: .lte('start_date', today)
\*   .or('end_date.is.null,end_date.gte.' + today).order('name')
fetchMedicationsQuery(meds, t) ==
    orderByName({ r \in MedicationRows(meds) :
                    /\ r.start_date <= toISODate(t)
                    /\ (r.end_date = NoDate \/ r.end_date >= toISODate(t)) })

\* Reminders.fetchMedications: .lte('start_date', addDays(new Date(), 7) ...)
remFetchMedicationsQuery(meds, t) ==
    orderByName({ r \in MedicationRows(meds) :
                    /\ r.start_date <= toISODate(addDays(t, ReminderDays))
                    /\ (r.end_date = NoDate \/ r.end_date >= toISODate(t)) })

\* DoseLogging.fetchTodaysLogs: timestamp_taken within today
fetchTodaysLogsQuery(logs, t) ==
    { r \in logs : /\ r.timestamp_taken >= startOfDay(t)
                   /\ r.timestamp_taken <= endOfDay(t) }

\* Reminders.fetchDoseLogs: scheduled_time from today to the end of day + 7
fetchDoseLogsQuery(logs, t) ==
    { r \in logs : /\ r.scheduled_time >= startOfDay(t)
                   /\ r.scheduled_time <= endOfDay(addDays(t, ReminderDays)) }

(***************************************************************************)
(* Schedule generation and classification.                                 *)
(***************************************************************************)
\* for (let i = 0; i < frequency; i++): the number of passes
DoseCount_le(frequency) == IF frequency >= 0 THEN frequency + 1 ELSE 0

DoseCount(frequency) == IF frequency > 0 THEN frequency ELSE 0

\* logs.find(log => log.medication_id === medication.id &&
\*   log.scheduled_time.slice(0, 16) === scheduledTime.toISOString().slice(0, 16))
findDoseLog(logs, medId, scheduledTime) ==
    \E log \in logs : /\ log.medication_id = medId
                      /\ slice16(log.scheduled_time) = slice16(scheduledTime)

\* the status of a dose in DoseLogging.generateScheduledDoses
status_subHours(doseLog, t, scheduledTime) ==
    IF doseLog THEN "taken"
    ELSE IF t > addHours(scheduledTime, 0 - GraceHours) THEN "missed"
    ELSE IF t > scheduledTime THEN "late"
    ELSE "pending"

status(doseLog, t, scheduledTime) ==
    IF doseLog THEN "taken"
    ELSE IF t > addHours(scheduledTime, GraceHours) THEN "missed"
    ELSE IF t > scheduledTime THEN "late"
    ELSE "pending"

\* isWithinInterval(date, {start, end}) of date-fns: both ends belong
isWithinInterval(date, start, end) == date >= start /\ date <= end

isSameDay(a, b) == startOfDay(a) = startOfDay(b)
isToday(date, t) == isSameDay(date, t)
isTomorrow(date, t) == isSameDay(date, addDays(t, 1))
isFuture(date, t) == date > t

RECURSIVE flatten(_)
flatten(seqs) ==
    IF seqs = <<>> THEN <<>> ELSE Head(seqs) \o flatten(Tail(seqs))

\* doses.sort((a, b) => a.scheduledTime.getTime() - b.scheduledTime.getTime()),
\* a stable sort
RECURSIVE insertDose(_, _)
insertDose(d, sorted) ==
    IF sorted = <<>> THEN <<d>>
    ELSE IF sorted[Len(sorted)].scheduledTime <= d.scheduledTime
    THEN Append(sorted, d)
    ELSE Append(insertDose(d, SubSeq(sorted, 1, Len(sorted) - 1)),
                sorted[Len(sorted)])

\* the sort of a doses array that is not emptied between two calls
RECURSIVE insertAll(_, _)
insertAll(doses, sorted) ==
    IF doses = <<>> THEN sorted
    ELSE insertAll(Tail(doses), insertDose(Head(doses), sorted))

sortDoses_kept(doses) == insertAll(doses, scheduledDoses)

RECURSIVE sortDoses(_)
sortDoses(doses) ==
    IF doses = <<>> THEN <<>>
    ELSE insertDose(doses[Len(doses)],
                    sortDoses(SubSeq(doses, 1, Len(doses) - 1)))

\* DoseLogging.generateScheduledDoses: the doses of today of every fetched
\* medication, classified against the fetched logs
generateScheduledDoses(meds, logs, t) ==
    LET today == startOfDay(t)
        dosesOf(medication) ==
            [k \in 1 .. DoseCount(medication.frequency_per_day) |->
                LET scheduledTime ==
                        scheduledTimeOf(today, k - 1,
                                        medication.frequency_per_day)
                IN [medication |-> medication.id,
                    doseNumber |-> k,
                    scheduledTime |-> scheduledTime,
                    status |-> status(findDoseLog(logs, medication.id,
                                                  scheduledTime),
                                      t, scheduledTime)]]
    IN sortDoses(flatten([n \in 1 .. Len(meds) |-> dosesOf(meds[n])]))

\* the test of Reminders.generateScheduledDoses on a dose without a log
remIncluded(t, scheduledTime) ==
    \/ scheduledTime > t
    \/ isWithinInterval(t, scheduledTime, addHours(scheduledTime, GraceHours))

\* The clock reads of one pass of Reminders.generateScheduledDoses.  The
\* pass reads the clock first into now, then once for each day, once for
\* each medication without end_date, and in isToday, isTomorrow and isFuture
\* for each dose it lists: a read at the place <<day, medication, dose, read>>
\* of the loops.  A pass is [t, u, moved]: the reads before the place moved
\* see the instant t, the reads from there on see u.
Before(p, q) ==
    \E k \in 1 .. 4 : /\ p[k] < q[k]
                      /\ \A j \in 1 .. k - 1 : p[j] = q[j]

clockAt(pass, place) ==
    IF pass.t = pass.u THEN pass.t
    ELSE IF Before(place, pass.moved) THEN pass.t
    ELSE pass.u

\* the pass during which the clock stands at t
StillPass(t) == [t |-> t, u |-> t, moved |-> <<0, 0, 0, 0>>]

\* Reminders.generateScheduledDoses: for each of the next 7 days, the doses
\* of every medication in its date range that have no log and are not more
\* than four hours past
remGeneratePass(meds, logs, pass) ==
    LET t == pass.t
        dosesOf(medication, currentDate, day, n) ==
            LET all == [k \in 1 .. DoseCount(medication.frequency_per_day) |->
                          LET scheduledTime ==
                                scheduledTimeOf(currentDate, k - 1,
                                                medication.frequency_per_day)
                              at(read) == clockAt(pass, <<day, n, k, read>>)
                          IN [medication |-> medication.id,
                              doseNumber |-> k,
                              scheduledTime |-> scheduledTime,
                              isToday |-> isToday(scheduledTime, at(1)),
                              isTomorrow |-> isTomorrow(scheduledTime, at(2)),
                              isUpcoming |-> /\ ~isToday(scheduledTime, at(3))
                                             /\ ~isTomorrow(scheduledTime, at(4))
                                             /\ isFuture(scheduledTime, at(5)),
                              isDue |-> isWithinInterval(t, scheduledTime,
                                          addHours(scheduledTime, GraceHours))]]
                keep(d) == /\ ~findDoseLog(logs, medication.id, d.scheduledTime)
                           /\ remIncluded(t, d.scheduledTime)
            IN SelectSeq(all, keep)
        inRange(medication, currentDate, day, n) ==
            LET startDate == startOfDay(dateToInstant(medication.start_date))
                endDate == IF medication.end_date # NoDate
                           THEN endOfDay(dateToInstant(medication.end_date))
                           ELSE endOfDay(addDays(clockAt(pass, <<day, n, 0, 0>>),
                                                 FarFutureDays))
            IN currentDate >= startDate /\ currentDate <= endDate
        ofDay(day) ==
            LET currentDate ==
                  startOfDay(addDays(clockAt(pass, <<day, 0, 0, 0>>), day - 1))
            IN flatten([n \in 1 .. Len(meds) |->
                          IF inRange(meds[n], currentDate, day, n)
                          THEN dosesOf(meds[n], currentDate, day, n) ELSE <<>>])
    IN sortDoses(flatten([day \in 1 .. ReminderDays |-> ofDay(day)]))

\* the pass as the pages of the other specifications run it: the clock
\* does not move while it runs
remGenerateScheduledDoses(meds, logs, t) ==
    remGeneratePass(meds, logs, StillPass(t))

(***************************************************************************)
(* The store and the tabs.                                                 *)
(***************************************************************************)
\* useState<AdherenceSummary | null>(null), and no answer yet
NoSummary == [kind |-> "none"]

\* the Reports page before its first fetch
NoReport == [adherence |-> NoSummary, range |-> <<0, 0>>, failed |-> FALSE]

\* two tabs, so that two requests can be in flight at once: tab1 is any
\* caller's, tab2 is a tab of the owner of the medication
Tabs == {"tab1", "tab2"}

MedRow(owner, name, frequency, start, end) ==
    [user_id |-> owner, name |-> name, frequency_per_day |-> frequency,
     start_date |-> start, end_date |-> end]

\* the instants the clock of the recording runs shows, after midnight of day 0
ClockInstants ==
    { 9 * HourSec + 30 * MinuteSec,      \* 09:30
      12 * HourSec,                      \* 12:00, four hours after 08:00
      13 * HourSec }                     \* 13:00

IdleTab(uid) ==
    [pc |-> "idle", uid |-> uid, client |-> "none", med |-> "none",
     sched |-> 0, actual |-> 0, res |-> "none", row |-> 0, conc |-> FALSE]

\* a request leaves tab t; conc records that a request for the same
\* (medication, scheduled instant) was in flight at that moment
Send(t, client, med, sched, actual) ==
    LET same(u) == /\ u # t
                   /\ tab[u].pc = "sent"
                   /\ tab[u].med = med
                   /\ tab[u].sched = sched
    IN /\ tab[t].pc # "sent"
       /\ Cardinality(dose_logs)
            + Cardinality({u \in Tabs : tab[u].pc = "sent"}) < MaxLogs
       /\ tab' = [u \in Tabs |->
                    IF u = t
                    THEN [pc |-> "sent", uid |-> tab[t].uid, client |-> client,
                          med |-> med, sched |-> sched, actual |-> actual,
                          res |-> "none", row |-> 0,
                          conc |-> \E v \in Tabs : same(v)]
                    ELSE IF same(u) THEN [tab[u] EXCEPT !.conc = TRUE]
                    ELSE tab[u]]
       /\ UNCHANGED <<now, tz, storeVars, viewVars>>

\* the doses of today a page shows for the medications of the store
DosesOfToday ==
    UNION { { [med |-> m, sched |-> s] :
                s \in Occurrences(startOfDay(now),
                                  medications_tbl[m].frequency_per_day) } :
            m \in DOMAIN medications_tbl }

\* logDose(medicationId, scheduledTime, actualTime) of the client library,
\* called for one of the scheduled instants given
logDoseAt(t, instants) ==
    \E med \in MedIds \cup {GhostMed} :
      \E scheduledTime \in instants :
        Send(t, "logDose", med, scheduledTime, now)

\* logDose called for a dose of today
logDose(t) == logDoseAt(t, { d.sched : d \in DosesOfToday })

\* DoseLogging.handleLogDose(dose): "Mark as Taken"
handleLogDose(t) ==
    \E d \in DosesOfToday :
      /\ tab[t].uid # NULL
      /\ Send(t, "handleLogDose", d.med, d.sched, now)

\* Reminders.handleMarkAsTaken(dose)
handleMarkAsTaken(t) ==
    \E d \in DosesOfToday :
      /\ tab[t].uid # NULL
      /\ Send(t, "handleMarkAsTaken", d.med, d.sched, now)

\* DoseLogging.handleMarkAsMissed(dose): "Mark as Missed"
handleMarkAsMissed(t) ==
    \E d \in DosesOfToday :
      /\ tab[t].uid # NULL
      /\ Send(t, "handleMarkAsMissed", d.med, d.sched, now)

\* the store serves the request of tab t in one transaction and answers
Respond(t) ==
    /\ tab[t].pc = "sent"
    /\ LET out == Serve(tab[t], dose_logs, medications_tbl)
       IN /\ dose_logs' = out.logs
          /\ tab' = [tab EXCEPT ![t].pc = "done",
                                ![t].res = out.res,
                                ![t].row = out.row]
    /\ UNCHANGED <<now, tz, medications_tbl, viewVars>>

\* time passes
Tick ==
    /\ \E later \in ClockInstants :
         /\ later > now
         /\ \A other \in ClockInstants : other > now => later <= other
         /\ now' = later
    /\ UNCHANGED <<tz, storeVars, tab, viewVars>>

Init ==
    /\ now = 9 * HourSec + 30 * MinuteSec
    /\ tz = 0
    /\ medications_tbl = [m \in MedIds |-> MedRow("u1", "A", 2, 0, NoDate)]
    /\ dose_logs = {}
    /\ \E uid \in Sessions :
         tab = [t \in Tabs |-> IdleTab(IF t = "tab1" THEN uid ELSE "u1")]
    /\ medications = <<>>
    /\ todaysLogs = {}
    /\ scheduledDoses = <<>>
    /\ remMedications = <<>>
    /\ doseLogs = {}
    /\ remScheduledDoses = <<>>
    /\ summary = NoSummary
    /\ adherence = NoSummary
    /\ reports = NoReport

Next ==
    \/ Tick
    \/ \E t \in Tabs : logDose(t)
    \/ \E t \in Tabs : handleLogDose(t)
    \/ \E t \in Tabs : handleMarkAsTaken(t)
    \/ \E t \in Tabs : handleMarkAsMissed(t)
    \/ \E t \in Tabs : Respond(t)

Spec == Init /\ [][Next]_vars

(***************************************************************************)
(* The pages.  A fetch that completes sets its state; the effect of the    *)
(* page then runs generateScheduledDoses.                                  *)
(***************************************************************************)
\* DoseLogging.fetchMedications, then the effect on [medications, todaysLogs]
fetchMedications ==
    /\ medications' = fetchMedicationsQuery(medications_tbl, now)
    /\ scheduledDoses' =
         IF Len(medications') > 0
         THEN generateScheduledDoses(medications', todaysLogs, now)
         ELSE scheduledDoses
    /\ UNCHANGED <<now, tz, storeVars, tab, todaysLogs, remVars, sumVars>>

\* DoseLogging.fetchTodaysLogs, then the effect on [medications, todaysLogs]
fetchTodaysLogs ==
    /\ todaysLogs' = fetchTodaysLogsQuery(dose_logs, now)
    /\ scheduledDoses' =
         IF Len(medications) > 0
         THEN generateScheduledDoses(medications, todaysLogs', now)
         ELSE scheduledDoses
    /\ UNCHANGED <<now, tz, storeVars, tab, medications, remVars, sumVars>>

\* Reminders.fetchMedications, then the effect on [medications], whose pass
\* reads the clock as pass tells and leaves it at pass.u
remFetchMedicationsIn(pass) ==
    /\ remMedications' = remFetchMedicationsQuery(medications_tbl, pass.t)
    /\ remScheduledDoses' =
         IF Len(remMedications') > 0
         THEN remGeneratePass(remMedications', doseLogs, pass)
         ELSE remScheduledDoses
    /\ now' = pass.u
    /\ UNCHANGED <<tz, storeVars, tab, doseLogs, logVars, sumVars>>

\* the same while the clock stands still
remFetchMedications == remFetchMedicationsIn(StillPass(now))

\* Reminders.fetchDoseLogs: no effect depends on doseLogs
fetchDoseLogs ==
    /\ doseLogs' = fetchDoseLogsQuery(dose_logs, now)
    /\ UNCHANGED <<now, tz, storeVars, tab, remMedications, remScheduledDoses,
                   logVars, sumVars>>

(***************************************************************************)
(* The inputs of the pages: a store and an instant of day 1.               *)
(***************************************************************************)
Today == 1 * DaySec

\* getTimezoneOffset of the browser: New York (winter), UTC, India
TimeZones == { 0 - 5 * HourSec, 0, 5 * HourSec + 30 * MinuteSec }

\* the instant of midnight of day 1 on the browser's clock
LocalToday == Today - tz

\* <<start_date, end_date>> of medication m1: open since yesterday, since
\* today, from tomorrow on; ended yesterday; until tomorrow
DateRanges ==
    { <<0, NoDate>>, <<1, NoDate>>, <<2, NoDate>>, <<0, 0>>, <<0, 2>> }

\* around an instant: a second before, at it, a second after, and the same
\* around the end of its four hours
BoundaryOffsets ==
    { 0 - 1, 0, 1,
      GraceHours * HourSec - 1, GraceHours * HourSec, GraceHours * HourSec + 1 }

NowChoices(frequency) ==
    { LocalToday + 1 * HourSec }
    \cup { scheduledTimeOf(LocalToday, 0, frequency) + d : d \in BoundaryOffsets }
    \cup { scheduledTimeOf(LocalToday, frequency - 1, frequency) + d :
             d \in {0 - 1, 0, 1} }

\* a row log_dose wrote at midnight of day 1 for a dose of day 1
TakenRow(id, med, scheduledTime) ==
    [id |-> id, medication_id |-> med, timestamp_taken |-> LocalToday,
     scheduled_time |-> scheduledTime,
     taken_on_time |-> OnTime(LocalToday, scheduledTime),
     reward_earned |-> RewardEarned(OnTime(LocalToday, scheduledTime))]

LogChoices(frequency) ==
    SUBSET { TakenRow(1, "m1", scheduledTimeOf(LocalToday, 0, frequency)),
             TakenRow(2, "m1", scheduledTimeOf(LocalToday, frequency - 1, frequency)) }

InitView ==
    /\ tz \in TimeZones
    /\ \E frequency \in 1 .. MaxFreq :
         /\ now \in NowChoices(frequency)
         /\ \E range \in DateRanges, names \in {<<"A", "B">>, <<"B", "A">>} :
              medications_tbl =
                [m \in {"m1", "m2"} |->
                   IF m = "m1"
                   THEN MedRow("u1", names[1], frequency,
                               range[1], range[2])
                   ELSE MedRow("u2", names[2], 2, 0, NoDate)]
         /\ dose_logs \in LogChoices(frequency)
    /\ tab = [t \in Tabs |-> IdleTab("u1")]
    /\ medications = <<>>
    /\ todaysLogs = {}
    /\ scheduledDoses = <<>>
    /\ remMedications = <<>>
    /\ doseLogs = {}
    /\ remScheduledDoses = <<>>
    /\ summary = NoSummary
    /\ adherence = NoSummary
    /\ reports = NoReport

NextView ==
    \/ fetchMedications
    \/ fetchTodaysLogs
    \/ remFetchMedications
    \/ fetchDoseLogs

SpecView == InitView /\ [][NextView]_vars

(***************************************************************************)
(* The adherence summary.  A percentage is held in hundredths of a percent *)
(* (8571 is 85.71), the exact value rounded half up; for the group sizes   *)
(* and group counts of the model no value lies on a rounding tie, so the   *)
(* double precision arithmetic of the function gives the same.             *)
(***************************************************************************)
\* scheduled_time >= NOW() - INTERVAL '7 days'
WindowDays == 7
\* LIMIT 5
MostMissedLimit == 5

\* SQL NULL where a number is expected (AVG over no rows)
NullNumber == 0 - 1

\* DATE_TRUNC('day', scheduled_time) in the time zone of the database, UTC
DATE_TRUNC_day(t) == t \div DaySec

RECURSIVE Sum(_, _)
Sum(f, S) ==
    IF S = {} THEN 0
    ELSE LET x == CHOOSE y \in S : TRUE IN f[x] + Sum(f, S \ {x})

RECURSIVE Product(_, _)
Product(f, S) ==
    IF S = {} THEN 1
    ELSE LET x == CHOOSE y \in S : TRUE IN f[x] * Product(f, S \ {x})

\* ROUND(100 * num / den, 2), in hundredths of a percent
RoundPercent(num, den) == (2 * 10000 * num + den) \div (2 * den)

\* FROM dose_logs dl JOIN medications m ON m.id = dl.medication_id
\* WHERE m.user_id = p_user_id AND scheduled_time >= NOW() - INTERVAL '7 days'
SummaryRows(p_user_id, t, logs, meds) ==
    { dl \in logs : /\ dl.medication_id \in DOMAIN meds
                    /\ meds[dl.medication_id].user_id = p_user_id
                    /\ dl.scheduled_time >= t - WindowDays * DaySec }

\* the CTE adherence_data: GROUP BY DATE_TRUNC('day', scheduled_time), m.name
adherence_data(p_user_id, t, logs, meds) ==
    LET rows == SummaryRows(p_user_id, t, logs, meds)
        keys == { <<DATE_TRUNC_day(dl.scheduled_time),
                    meds[dl.medication_id].name>> : dl \in rows }
        of(key) == { dl \in rows :
                       /\ DATE_TRUNC_day(dl.scheduled_time) = key[1]
                       /\ meds[dl.medication_id].name = key[2] }
    IN { [date |-> key[1],
          medication_name |-> key[2],
          total_doses |-> Cardinality(of(key)),
          taken_on_time |-> Cardinality({dl \in of(key) : dl.taken_on_time}),
          missed_count |-> Cardinality({dl \in of(key) : ~dl.taken_on_time})] :
         key \in keys }

\* ROUND(AVG(CASE WHEN total_doses > 0
\*   THEN (taken_on_time::float / total_doses) * 100 ELSE 0 END), 2)
weekly_adherence(data) ==
    IF data = {} THEN NullNumber
    ELSE LET total == [g \in data |-> g.total_doses]
             all == Product(total, data)
             share == [g \in data |->
                         g.taken_on_time * (all \div g.total_doses)]
         IN RoundPercent(Sum(share, data), all * Cardinality(data))

\* SELECT medication_name, SUM(missed_count) ... GROUP BY medication_name
MissedByName(data) ==
    { [medication_name |-> name,
       missed_count |->
         Sum([g \in {h \in data : h.medication_name = name} |-> g.missed_count],
             {h \in data : h.medication_name = name})] :
      name \in { g.medication_name : g \in data } }

\* the orders ORDER BY missed_count DESC allows: rows of equal count come in
\* any order
RECURSIVE Orderings(_)
Orderings(rows) ==
    IF rows = {} THEN { <<>> }
    ELSE UNION { { <<first>> \o rest : rest \in Orderings(rows \ {first}) } :
                 first \in { r \in rows :
                               \A q \in rows :
                                  r.missed_count >= q.missed_count } }

\* ORDER BY missed_count DESC LIMIT 5
most_missed(data) ==
    { SubSeq(o, 1, IF Len(o) < MostMissedLimit THEN Len(o)
                   ELSE MostMissedLimit) :
      o \in Orderings(MissedByName(data)) }

\* json_agg over adherence_data of (date, ROUND(taken / total * 100, 2)),
\* one entry per group, here in the order of date and name (json_agg over
\* no rows is NULL, held as the empty sequence)
RECURSIVE calendar_data(_)
calendar_data(data) ==
    IF data = {} THEN <<>>
    ELSE LET first == CHOOSE g \in data :
                        \A h \in data :
                          \/ g.date < h.date
                          \/ /\ g.date = h.date
                             /\ NameRank(g.medication_name)
                                  <= NameRank(h.medication_name)
         IN <<[date |-> first.date,
               adherence_rate |-> RoundPercent(first.taken_on_time,
                                               first.total_doses)]>>
            \o calendar_data(data \ {first})

\* get_adherence_summary(p_user_id): the results it can give.  ROUND is
\* applied to a double precision value and a number of digits; a database
\* that has no round(double precision, integer) fails the call.
get_adherence_summary(p_user_id, t, logs, meds) ==
    LET data == adherence_data(p_user_id, t, logs, meds)
    IN { [kind |-> "data",
          weekly_adherence |-> weekly_adherence(data),
          most_missed |-> missed,
          calendar_data |-> calendar_data(data)] :
         missed \in most_missed(data) }
       \cup { [kind |-> "error", code |-> "no_round_function"] }

(***************************************************************************)
(* The callers of get_adherence_summary.                                   *)
(***************************************************************************)
\* get_adherence_summary(p_user_id UUID)
SummaryArgs == {"p_user_id"}
\* getAdherenceSummary of the client library
GetAdherenceSummaryKeys == {"p_user_id"}
\* Dashboard.fetchAdherenceData
FetchAdherenceDataKeys == {"user_id", "start_date", "end_date"}
\* Reports.fetchData
FetchDataKeys == {"user_id", "start_date", "end_date"}

\* the store serves rpc('get_adherence_summary', args): a function is found
\* by the names of its arguments
ServeSummary(keys, p_user_id, t, logs, meds) ==
    IF keys # SummaryArgs
    THEN { [kind |-> "error", code |-> "no_function"] }
    ELSE get_adherence_summary(p_user_id, t, logs, meds)

\* the summary the pages fall back to
ZeroSummary ==
    [kind |-> "data", adherence_percentage |-> 0,
     missed_medications |-> <<>>, day_data |-> <<>>]

\* data && data.length > 0: the function returns one JSON object, and an
\* object has no length
IsNonEmptyArray(out) == FALSE

\* the client library: const { data, error } = await supabase.rpc(...)
getAdherenceSummary ==
    /\ tab["tab1"].uid # NULL
    /\ summary' \in ServeSummary(GetAdherenceSummaryKeys, tab["tab1"].uid,
                                 now, dose_logs, medications_tbl)
    /\ UNCHANGED <<now, tz, storeVars, tab, logVars, remVars, adherence,
                   reports>>

\* Dashboard.fetchAdherenceData
fetchAdherenceData ==
    /\ tab["tab1"].uid # NULL
    /\ \E out \in ServeSummary(FetchAdherenceDataKeys, tab["tab1"].uid,
                               now, dose_logs, medications_tbl) :
         adherence' =
           IF out.kind = "error" THEN ZeroSummary
           ELSE IF IsNonEmptyArray(out)
           THEN [kind |-> "data",
                 adherence_percentage |-> out.weekly_adherence,
                 missed_medications |-> out.most_missed,
                 day_data |-> out.calendar_data]
           ELSE ZeroSummary
    /\ UNCHANGED <<now, tz, storeVars, tab, logVars, remVars, summary,
                   reports>>

\* Reports.fetchData for the date range <<start, end>> the user has set: an
\* error of the summary call is thrown, and the catch shows the error
fetchData(range) ==
    /\ tab["tab1"].uid # NULL
    /\ \E out \in ServeSummary(FetchDataKeys, tab["tab1"].uid,
                               now, dose_logs, medications_tbl) :
         reports' =
           IF out.kind = "error"
           THEN [reports EXCEPT !.range = range, !.failed = TRUE]
           ELSE IF IsNonEmptyArray(out)
           THEN [adherence |->
                   [kind |-> "data",
                    adherence_percentage |-> out.weekly_adherence,
                    missed_medications |-> out.most_missed,
                    day_data |-> out.calendar_data],
                 range |-> range, failed |-> FALSE]
           ELSE [reports EXCEPT !.range = range, !.failed = FALSE]
    /\ UNCHANGED <<now, tz, storeVars, tab, logVars, remVars, summary,
                   adherence>>

(***************************************************************************)
(* The inputs of the summary: a store with the logs of several days and    *)
(* medications, read in the evening of day 10.                             *)
(***************************************************************************)
\* logs a medication has for one day, at most
MaxDayLogs == 2

SummaryDay == 10

\* the hours of the doses of a day that have a log, in the order they are
\* filled: 20:00 is the last dose of frequency 4
SlotHours == <<8, 20, 12, 16>>

\* the instant the browser's clock shows hour h of the day numbered day
LocalInstant(day, h) == day * DaySec - tz + h * HourSec

\* the rows log_dose wrote for medication med on a day: taken doses taken
\* on time, then missed doses recorded late
SlotRows(med, day, taken, missed, firstId) ==
    { [id |-> firstId + k,
       medication_id |-> med,
       timestamp_taken |-> IF k <= taken
                           THEN LocalInstant(day, SlotHours[k])
                           ELSE LocalInstant(day, SlotHours[k] + GraceHours + 1),
       scheduled_time |-> LocalInstant(day, SlotHours[k]),
       taken_on_time |-> k <= taken,
       reward_earned |-> RewardEarned(k <= taken)] :
      k \in 1 .. taken + missed }

\* <<taken, missed>> of one medication on one day
SlotCounts ==
    { c \in (0 .. MaxDayLogs) \X (0 .. MaxDayLogs) : c[1] + c[2] <= MaxDayLogs }

\* the date ranges set on the Reports page: the last week, and days 1 to 2
RangeChoices == { <<SummaryDay - 7, SummaryDay>>, <<1, 2>> }

InitSummary ==
    /\ tz \in TimeZones
    /\ now = LocalInstant(SummaryDay, 21)
    /\ \E name \in {"A", "B"} :
         medications_tbl =
           [m \in {"m1", "m2", "m3"} |->
              IF m = "m1" THEN MedRow("u1", "A", 4, 0, NoDate)
              ELSE IF m = "m2" THEN MedRow("u1", name, 4, 0, NoDate)
              ELSE MedRow("u2", "B", 4, 0, NoDate)]
    /\ \E c1 \in SlotCounts, c2 \in SlotCounts, c3 \in SlotCounts :
         dose_logs =
           SlotRows("m1", SummaryDay, c1[1], c1[2], 0)
           \cup SlotRows("m1", SummaryDay - 1, c2[1], c2[2], 10)
           \cup SlotRows("m2", SummaryDay, c3[1], c3[2], 20)
           \cup SlotRows("m1", 1, 0, 1, 30)
           \cup SlotRows("m3", SummaryDay, 0, 1, 40)
    /\ tab = [t \in Tabs |-> IdleTab("u1")]
    /\ medications = <<>>
    /\ todaysLogs = {}
    /\ scheduledDoses = <<>>
    /\ remMedications = <<>>
    /\ doseLogs = {}
    /\ remScheduledDoses = <<>>
    /\ summary = NoSummary
    /\ adherence = NoSummary
    /\ reports = NoReport

NextSummary ==
    \/ getAdherenceSummary
    \/ fetchAdherenceData
    \/ \E range \in RangeChoices : fetchData(range)

SpecSummary == InitSummary /\ [][NextSummary]_vars

(***************************************************************************)
(* The pages and the client library over what nothing validates: the       *)
(* table medications takes any frequency_per_day, logDose any scheduled    *)
(* instant, the date inputs of the Reports page any two dates; and around  *)
(* midnight, where the clock moves on to the next day during a pass.  The   *)
(* store holds no log, or the log of the 08:00 dose of m2 of day 1.        *)
(***************************************************************************)
\* frequency_per_day INTEGER NOT NULL, with no CHECK
FrequencyChoices == (0 - 1) .. MaxFreq

\* the clock at the load of a page: the last second of day 0, midnight of
\* day 1, and 12:00:01 of day 1
PageInstants ==
    { LocalToday - 1, LocalToday, LocalToday + 12 * HourSec + 1 }

\* the scheduledTime logDose is called with: 08:00 of day 1, the first dose
\* of every frequency, and 09:00, no dose of a frequency up to 15
CallInstants ==
    { LocalToday + FirstDoseHour * HourSec,
      LocalToday + (FirstDoseHour + 1) * HourSec }

Min(S) == CHOOSE x \in S : \A y \in S : x <= y

\* the dates set on the Reports page: day 0 to day 1, and day 1 to day 0
ReportRanges == { <<0, 1>>, <<1, 0>> }

\* where the clock moves during a pass of Reminders: at one of the reads for
\* the first dose of the first medication, today or tomorrow
MovedPlaces == { <<day, 1, 1, read>> : day \in 1 .. 2, read \in 0 .. 5 }

\* the passes that start at now: the clock stands still, or it moves on by
\* a second to the next instant of the model
Passes ==
    { StillPass(now) }
    \cup { [t |-> now, u |-> now + 1, moved |-> moved] :
             moved \in { m \in MovedPlaces : now + 1 \in PageInstants } }

InitPage ==
    /\ tz \in TimeZones
    /\ now \in PageInstants
    /\ \E frequency \in FrequencyChoices :
         medications_tbl =
           [m \in {"m1", "m2"} |->
              IF m = "m1" THEN MedRow("u1", "A", frequency, 0, NoDate)
              ELSE MedRow("u1", "B", 2, 0, NoDate)]
    /\ dose_logs \in { {}, {TakenRow(1, "m2", Min(CallInstants))} }
    /\ tab = [t \in Tabs |-> IdleTab("u1")]
    /\ medications = <<>>
    /\ todaysLogs = {}
    /\ scheduledDoses = <<>>
    /\ remMedications = <<>>
    /\ doseLogs = {}
    /\ remScheduledDoses = <<>>
    /\ summary = NoSummary
    /\ adherence = NoSummary
    /\ reports = NoReport

NextPage ==
    \/ fetchMedications
    \/ fetchTodaysLogs
    \/ \E pass \in Passes : remFetchMedicationsIn(pass)
    \/ fetchDoseLogs
    \/ \E range \in ReportRanges : fetchData(range)

SpecPage == InitPage /\ [][NextPage]_vars

\* the calls of logDose over the same stores
NextCall ==
    \/ \E t \in Tabs : logDoseAt(t, CallInstants)
    \/ \E t \in Tabs : Respond(t)

SpecCall == InitPage /\ [][NextCall]_vars

(***************************************************************************)
(* Claims about recording, checked under Spec.                             *)
(***************************************************************************)
Owns(uid, med) ==
    /\ med \in DOMAIN medications_tbl
    /\ uid # NULL
    /\ medications_tbl[med].user_id = uid

\* the request of tab t was answered, and it had reached log_dose or the
\* insert into dose_logs (its keys are those the schema declares)
Answered(t) ==
    /\ tab[t].pc = "done"
    /\ IF Endpoint(tab[t].client) = "rpc/log_dose"
       THEN RequestKeys(tab[t].client) = LogDoseArgs
       ELSE RequestKeys(tab[t].client) \subseteq DoseLogColumns

LogsOfPair(med, sched) ==
    { r \in dose_logs : /\ r.medication_id = med
                        /\ slice16(r.scheduled_time) = slice16(sched) }

\* C1: after any sequence of record operations the store holds at most one
\* dose_logs row per (medication_id, scheduled_time cut to the minute).
C1_AtMostOneLogPerPair ==
    \A r1, r2 \in dose_logs :
        ( /\ r1.medication_id = r2.medication_id
          /\ slice16(r1.scheduled_time) = slice16(r2.scheduled_time) )
        => r1 = r2

\* C2: of two record requests by the owner for the same (medication,
\* scheduled instant) that were in flight together, exactly one stores a
\* DoseLog, the other fails with a duplicate-log error, and the store ends
\* with exactly one row for the pair.
C2_ConcurrentRecordOneWins ==
    \A t1, t2 \in Tabs :
        ( /\ t1 # t2
          /\ Answered(t1) /\ Answered(t2)
          /\ tab[t1].conc /\ tab[t2].conc
          /\ tab[t1].med = tab[t2].med
          /\ tab[t1].sched = tab[t2].sched
          /\ Owns(tab[t1].uid, tab[t1].med)
          /\ Owns(tab[t2].uid, tab[t2].med) )
        => /\ {tab[t1].res, tab[t2].res} = {"ok", "duplicate"}
           /\ Cardinality(LogsOfPair(tab[t1].med, tab[t1].sched)) = 1

\* C3: every record call for an existing medication by a caller who does
\* not own it (with a session or without) fails with an authorization error
\* and writes no dose_logs row.
C3_NonOwnerRejected ==
    \A t \in Tabs :
        ( /\ Answered(t)
          /\ tab[t].med \in DOMAIN medications_tbl
          /\ ~Owns(tab[t].uid, tab[t].med) )
        => /\ tab[t].res = "not_authorized"
           /\ tab[t].row = 0

\* C4: a dose recorded as taken at actualInstant is stored with
\* taken_on_time = (actualInstant <= scheduledInstant + 4 hours) and
\* reward_earned = taken_on_time.
C4_TakenOnTimeWithinFourHours ==
    \A t \in Tabs :
        ( /\ tab[t].pc = "done"
          /\ Endpoint(tab[t].client) = "rpc/log_dose"
          /\ tab[t].res = "ok" )
        => \E r \in dose_logs :
             /\ r.id = tab[t].row
             /\ r.medication_id = tab[t].med
             /\ r.scheduled_time = tab[t].sched
             /\ r.timestamp_taken = tab[t].actual
             /\ r.taken_on_time
                  = (tab[t].actual <= tab[t].sched + 4 * HourSec)
             /\ r.reward_earned = r.taken_on_time

\* the 08:00 dose taken at exactly 12:00 is stored as on time and rewarded,
\* and the 08:00 dose taken at 13:00 is stored as late and not rewarded
C4_Witness ==
    /\ \E r \in dose_logs :
         /\ r.scheduled_time = 8 * HourSec
         /\ r.timestamp_taken = 12 * HourSec
         /\ r.taken_on_time /\ r.reward_earned
    /\ \E r \in dose_logs :
         /\ r.scheduled_time = 8 * HourSec
         /\ r.timestamp_taken = 13 * HourSec
         /\ ~r.taken_on_time /\ ~r.reward_earned

\* C5: recording a dose as missed writes one DoseLog with taken_on_time =
\* false, reward_earned = false, scheduled_time = the scheduled instant of
\* the occurrence and timestamp_taken = the time of recording.
C5_MissedWritesOneLog ==
    \A t \in Tabs :
        ( /\ tab[t].pc = "done"
          /\ tab[t].client = "handleMarkAsMissed"
          /\ Owns(tab[t].uid, tab[t].med) )
        => /\ tab[t].res = "ok"
           /\ \E r \in dose_logs :
                /\ r.id = tab[t].row
                /\ r.medication_id = tab[t].med
                /\ r.scheduled_time = tab[t].sched
                /\ r.timestamp_taken = tab[t].actual
                /\ ~r.taken_on_time
                /\ ~r.reward_earned

(***************************************************************************)
(* Claims about generation and classification, checked under SpecView.     *)
(***************************************************************************)
\* the doses of medication med on the day that starts at day, as listed
LogDosesOf(med) ==
    LET mine(d) == d.medication = med
    IN SelectSeq(scheduledDoses, mine)

RemDosesOf(med, day) ==
    LET mine(d) == d.medication = med /\ startOfDay(d.scheduledTime) = day
    IN SelectSeq(remScheduledDoses, mine)

\* the Reminders page has fetched medication med (and so has generated)
RemHas(med) == \E n \in 1 .. Len(remMedications) : remMedications[n].id = med

\* the Reminders list is the one its current state generates
RemCurrent ==
    /\ Len(remMedications) > 0
    /\ remScheduledDoses
         = remGenerateScheduledDoses(remMedications, doseLogs, now)

RemListed(d) ==
    \E j \in 1 .. Len(remScheduledDoses) :
        /\ remScheduledDoses[j].medication = d.medication
        /\ remScheduledDoses[j].scheduledTime = d.scheduledTime

RemListedDue(d, due) ==
    \E j \in 1 .. Len(remScheduledDoses) :
        /\ remScheduledDoses[j].medication = d.medication
        /\ remScheduledDoses[j].scheduledTime = d.scheduledTime
        /\ remScheduledDoses[j].isDue = due

\* the store holds a log for the dose
Logged(d) ==
    \E log \in dose_logs :
        /\ log.medication_id = d.medication
        /\ log.scheduled_time \div 60 = d.scheduledTime \div 60

\* C6: the classification of an occurrence is a partition by time: with a
\* matching log Taken; without one Pending iff now < scheduledInstant,
\* Due/Late iff scheduledInstant <= now <= scheduledInstant + 4h, Missed iff
\* now > scheduledInstant + 4h.
C6_ClassificationPartition ==
    \A k \in 1 .. Len(scheduledDoses) :
        LET d == scheduledDoses[k]
            s == d.scheduledTime
            matching == \E log \in todaysLogs :
                          /\ log.medication_id = d.medication
                          /\ log.scheduled_time \div 60 = s \div 60
        IN d.status = IF matching THEN "taken"
                      ELSE IF now < s THEN "pending"
                      ELSE IF now <= s + 4 * HourSec THEN "late"
                      ELSE "missed"

\* C7: an unlogged occurrence scheduled 4h00m01s before now is Missed (the
\* logging view says missed, Reminders does not list it), and one scheduled
\* 3h59m59s before now is Due/Late (late in the logging view, due in
\* Reminders).
C7_FourHourBoundary ==
    \A k \in 1 .. Len(scheduledDoses) :
        LET d == scheduledDoses[k]
            s == d.scheduledTime
        IN ~Logged(d) =>
             /\ (now - s = 4 * HourSec + 1) =>
                  /\ d.status = "missed"
                  /\ RemHas(d.medication) => ~RemListed(d)
             /\ (now - s = 4 * HourSec - 1) =>
                  /\ d.status = "late"
                  /\ RemHas(d.medication) => RemListedDue(d, TRUE)

\* both pages have classified an unlogged dose scheduled 4h00m01s ago
C7_Witness ==
    \E k \in 1 .. Len(scheduledDoses) :
        LET d == scheduledDoses[k]
        IN /\ ~Logged(d)
           /\ now - d.scheduledTime = 4 * HourSec + 1
           /\ d.status = "missed"
           /\ RemHas(d.medication)
           /\ ~RemListed(d)

\* C8: for the same dose logs and the same instant the two pages agree on
\* every occurrence of today: due in Reminders iff late in the logging view,
\* listed as not due iff pending, not listed iff taken or missed.
C8_ViewsAgree ==
    ( /\ Len(medications) > 0
      /\ RemCurrent
      /\ todaysLogs = doseLogs )
    => \A k \in 1 .. Len(scheduledDoses) :
         LET d == scheduledDoses[k]
         IN RemHas(d.medication) =>
              /\ (d.status = "late") <=> RemListedDue(d, TRUE)
              /\ (d.status = "pending") <=> RemListedDue(d, FALSE)
              /\ (d.status \in {"taken", "missed"}) <=> ~RemListed(d)

\* the date, as a day number, of the instant t on the browser's clock
localDate(t) == (t + tz) \div DaySec

\* medication row m is active on the local day that starts at day
ActiveOn(m, day) ==
    /\ m.start_date <= localDate(day)
    /\ (m.end_date = NoDate \/ localDate(day) <= m.end_date)

\* the doses carry the dose numbers 1 .. n in order, at increasing instants
NumberedIncreasing(doses, n) ==
    /\ Len(doses) = n
    /\ \A k \in 1 .. Len(doses) : doses[k].doseNumber = k
    /\ \A k \in 1 .. Len(doses) - 1 :
         doses[k].scheduledTime < doses[k + 1].scheduledTime

\* the doses are some of the doses 1 .. n, in order, at increasing instants
SomeOfIncreasing(doses, n) ==
    /\ Len(doses) <= n
    /\ \A k \in 1 .. Len(doses) : doses[k].doseNumber \in 1 .. n
    /\ \A k \in 1 .. Len(doses) - 1 :
         /\ doses[k].doseNumber < doses[k + 1].doseNumber
         /\ doses[k].scheduledTime < doses[k + 1].scheduledTime

\* the days the Reminders page generates
ReminderDaysOf(t) ==
    { startOfDay(t) + k * DaySec : k \in 0 .. ReminderDays - 1 }

NothingLoggedOrPast(m, day) ==
    /\ \A log \in dose_logs :
         log.medication_id = m.id => startOfDay(log.scheduled_time) # day
    /\ \A i \in 0 .. m.frequency_per_day - 1 :
         now <= addHours(scheduledTimeOf(day, i, m.frequency_per_day),
                         GraceHours)

\* the local day that starts at day is strictly inside the date range of m
InsideOn(m, day) ==
    /\ m.start_date < localDate(day)
    /\ (m.end_date = NoDate \/ localDate(day) < m.end_date)

\* the local day that starts at day is after the end date of m, or more
\* than a day before its start date
OutsideOn(m, day) ==
    \/ localDate(day) < m.start_date - 1
    \/ (m.end_date # NoDate /\ localDate(day) > m.end_date)

C10_TwelveHourWindow ==
    \A k \in 1 .. Len(scheduledDoses) :
        LET d == scheduledDoses[k]
            f == medications_tbl[d.medication].frequency_per_day
            i == d.doseNumber - 1
        IN d.scheduledTime
             = startOfDay(d.scheduledTime)
                 + (8 * 60 + (i * (20 - 8) * 60) \div f) * 60

\* round((hour mod 1) * 60) of dose i of frequency f, with
\* hour = 8 + i * 16 / f taken exactly
RoundedMinute(i, f) ==
    LET span == DoseSpanHours * 60
    IN ((2 * ((i * span) % (60 * f)) + f) \div (2 * f)) % 60

\* the minute of the hour the browser's clock shows at instant t
MinuteOfHour(t) == ((t - startOfDay(t)) \div MinuteSec) % 60

\* C11: the minute of a dose with a fractional hour is
\* round((hour mod 1) * 60), in both pages: frequency 3 gives the minutes
\* 20 and 40.
C11_MinuteIsRounded ==
    /\ \A k \in 1 .. Len(scheduledDoses) :
         LET d == scheduledDoses[k]
         IN MinuteOfHour(d.scheduledTime)
              = RoundedMinute(d.doseNumber - 1,
                    medications_tbl[d.medication].frequency_per_day)
    /\ \A k \in 1 .. Len(remScheduledDoses) :
         LET d == remScheduledDoses[k]
         IN MinuteOfHour(d.scheduledTime)
              = RoundedMinute(d.doseNumber - 1,
                    medications_tbl[d.medication].frequency_per_day)

\* the ascending order of the medication ids
IdRank(id) == IF id = "m1" THEN 1 ELSE 2

\* doses is ascending by instant, doses of distinct medications at the same
\* instant ascending by medication id
OrderedByInstantThenId(doses) ==
    \A k \in 1 .. Len(doses) - 1 :
        /\ doses[k].scheduledTime <= doses[k + 1].scheduledTime
        /\ ( /\ doses[k].scheduledTime = doses[k + 1].scheduledTime
             /\ doses[k].medication # doses[k + 1].medication )
           => IdRank(doses[k].medication) < IdRank(doses[k + 1].medication)

\* C12: the list each page generates is ascending by scheduled instant,
\* and occurrences of distinct medications at the same instant are in
\* ascending order of medication id.
C12_OrderedByInstantThenId ==
    /\ OrderedByInstantThenId(scheduledDoses)
    /\ OrderedByInstantThenId(remScheduledDoses)

\* the stored row of medication med, with its id
StoredMed(med) ==
    CHOOSE r \in MedicationRows(medications_tbl) : r.id = med

\* C13: an occurrence of local day d is generated for a medication iff
\* start_date <= d and (end_date is absent or d <= end_date), whatever the
\* timezone of the browser and the time of day: the logging view, once it
\* has fetched, shows doses of today for exactly the medications active
\* today; Reminders lists no dose of a day outside the date range, and the
\* doses of a day inside it (unless they are logged or four hours past).
C13_GeneratedIffInDateRange ==
    /\ Len(medications) > 0 =>
         \A med \in DOMAIN medications_tbl :
            (Len(LogDosesOf(med)) > 0)
              <=> ActiveOn(StoredMed(med), startOfDay(now))
    /\ Len(remMedications) > 0 =>
         \A med \in DOMAIN medications_tbl :
           \A day \in ReminderDaysOf(now) :
             LET m == StoredMed(med)
             IN /\ ~ActiveOn(m, day) => Len(RemDosesOf(med, day)) = 0
                /\ (ActiveOn(m, day) /\ NothingLoggedOrPast(m, day))
                     => Len(RemDosesOf(med, day)) > 0

\* no dose Reminders lists has a log among the logs it has fetched
NoListedDoseLogged ==
    \A k \in 1 .. Len(remScheduledDoses) :
        ~findDoseLog(doseLogs, remScheduledDoses[k].medication,
                     remScheduledDoses[k].scheduledTime)

SummaryUser == tab["tab1"].uid

\* the dose logs of the user's medications in the window of the summary
Eligible ==
    { dl \in dose_logs :
        /\ medications_tbl[dl.medication_id].user_id = SummaryUser
        /\ dl.scheduled_time >= now - WindowDays * DaySec }

Taken(logs) == { dl \in logs : dl.taken_on_time }
Missed(logs) == { dl \in logs : ~dl.taken_on_time }

\* round(100 * T / (T + M), 2) over logs, in hundredths of a percent
PooledPercent(logs) ==
    RoundPercent(Cardinality(Taken(logs)), Cardinality(logs))

\* C15: the overall percentage of a summary is round(100 * T / (T + M), 2)
\* for the T taken and M missed doses of the window, however they are
\* spread over days and medications.
C15_OverallIsPooledPercentage ==
    (summary.kind = "data" /\ Eligible # {})
    => summary.weekly_adherence = PooledPercent(Eligible)

\* C16: the per-day series has exactly one entry for every local calendar
\* day with a log, computed over the logs of all medications of that day,
\* and no other entry.
C16_OneEntryPerLocalDay ==
    summary.kind = "data" =>
      LET series == summary.calendar_data
          days == { localDate(dl.scheduled_time) : dl \in Eligible }
          of(day) == { dl \in Eligible : localDate(dl.scheduled_time) = day }
      IN /\ \A k \in 1 .. Len(series) : series[k].date \in days
         /\ \A day \in days :
              /\ Cardinality({ k \in 1 .. Len(series) :
                                 series[k].date = day }) = 1
              /\ \A k \in 1 .. Len(series) :
                   series[k].date = day
                   => series[k].adherence_rate = PooledPercent(of(day))

\* the missed doses of medication med in the window
MissedOf(med) == { dl \in Missed(Eligible) : dl.medication_id = med }

\* C17: the most-missed list has an entry of its own for every medication
\* with missed doses, is sorted by missed count descending, ties by name
\* ascending, and has at most 5 entries.
C17_MostMissedPerMedicationSorted ==
    summary.kind = "data" =>
      LET list == summary.most_missed
      IN /\ Len(list) <= MostMissedLimit
         /\ \A k \in 1 .. Len(list) - 1 :
              \/ list[k].missed_count > list[k + 1].missed_count
              \/ /\ list[k].missed_count = list[k + 1].missed_count
                 /\ NameRank(list[k].medication_name)
                      <= NameRank(list[k + 1].medication_name)
         /\ \A med \in DOMAIN medications_tbl :
              MissedOf(med) # {} =>
                \E k \in 1 .. Len(list) :
                   /\ list[k].medication_name = medications_tbl[med].name
                   /\ list[k].missed_count = Cardinality(MissedOf(med))

\* C18: a medication without a missed dose in the window is not in the
\* most-missed list: no entry has missed_count 0.
C18_NoZeroMissedEntry ==
    summary.kind = "data" =>
      \A k \in 1 .. Len(summary.most_missed) :
          summary.most_missed[k].missed_count > 0

\* C19: with no eligible dose log in the window the overall percentage of
\* the summary is the number 0, not null.
C19_EmptyWindowGivesZero ==
    (summary.kind = "data" /\ Eligible = {})
    => summary.weekly_adherence = 0

\* the dose logs of the user's medications scheduled on the local days
\* range[1] .. range[2]
InRange(range) ==
    { dl \in dose_logs :
        /\ medications_tbl[dl.medication_id].user_id = SummaryUser
        /\ localDate(dl.scheduled_time) >= range[1]
        /\ localDate(dl.scheduled_time) <= range[2] }

\* C20: the summary Reports holds after asking for a date range counts
\* exactly the dose logs scheduled within that range.
C20_RangeDecidesCountedLogs ==
    reports.range # NoReport.range =>
      /\ reports.adherence.kind = "data"
      /\ reports.adherence.adherence_percentage
           = IF InRange(reports.range) = {} THEN 0
             ELSE PooledPercent(InRange(reports.range))

(***************************************************************************)
(* Claims about what the pages show of a recorded dose, checked under      *)
(* Spec.                                                                   *)
(***************************************************************************)
\* the list a load of the logging view at this instant shows
LoadedDoses ==
    generateScheduledDoses(fetchMedicationsQuery(medications_tbl, now),
                           fetchTodaysLogsQuery(dose_logs, now), now)

\* the logging view shows the dose of med at sched with status st
LoadedStatus(med, sched, st) ==
    \E k \in 1 .. Len(LoadedDoses) :
        /\ LoadedDoses[k].medication = med
        /\ LoadedDoses[k].scheduledTime = sched
        /\ LoadedDoses[k].status = st

\* the percentage get_adherence_summary computes for the owner over the logs
\* of one dose alone: 100.00 iff the dose counts as taken
CountsAsTaken(med, sched) ==
    weekly_adherence(adherence_data(medications_tbl[med].user_id, now,
                                    LogsOfPair(med, sched), medications_tbl))
      = 100 * 100

\* C21: a dose marked as taken counts as taken in the adherence percentage
\* whenever the classifier shows it as Taken, however late it was taken; a
\* dose the owner marked as taken in the logging view counts for adherence
\* once the request is answered, even if the click came after the render.
C21_ShownTakenCountsAsTaken ==
    /\ \A d \in DosesOfToday :
         LoadedStatus(d.med, d.sched, "taken") => CountsAsTaken(d.med, d.sched)
    /\ \A t \in Tabs :
         ( /\ tab[t].pc = "done"
           /\ tab[t].client = "handleLogDose"
           /\ Owns(tab[t].uid, tab[t].med) )
         => CountsAsTaken(tab[t].med, tab[t].sched)

\* the owner has marked the dose as missed in tab t, and the store has
\* answered
MarkedMissed(t, med, sched) ==
    /\ tab[t].pc = "done"
    /\ tab[t].client = "handleMarkAsMissed"
    /\ tab[t].med = med
    /\ tab[t].sched = sched
    /\ Owns(tab[t].uid, med)

\* C26: an occurrence the user explicitly recorded as missed is never
\* classified as Taken by a later classification pass, whatever is recorded
\* afterwards and also after a reload has reset justMissed.
C26_ExplicitMissNeverShownTaken ==
    \A d \in DosesOfToday :
        (\E t \in Tabs : MarkedMissed(t, d.med, d.sched))
        => ~LoadedStatus(d.med, d.sched, "taken")

\* setJustTaken(prev => ({...prev, [key]: true})), the first statement of
\* handleLogDose and of handleMarkAsTaken: the page of tab t holds the key of
\* the dose it marked as taken last, and no statement removes a key
isJustTaken(t, med, sched) ==
    /\ tab[t].client \in {"handleLogDose", "handleMarkAsTaken"}
    /\ tab[t].med = med
    /\ tab[t].sched = sched

\* setJustMissed, the first statement of handleMarkAsMissed
isJustMissed(t, med, sched) ==
    /\ tab[t].client = "handleMarkAsMissed"
    /\ tab[t].med = med
    /\ tab[t].sched = sched

\* the card of a dose with status st on the page of tab t: the line
\* 'Medication Taken', the line 'Medication Missed', the two buttons
ShowsTaken(t, med, sched, st) == st = "taken" \/ isJustTaken(t, med, sched)
ShowsMissed(t, med, sched, st) == st = "missed" \/ isJustMissed(t, med, sched)
ShowsButtons(t, med, sched, st) ==
    /\ st \notin {"taken", "missed"}
    /\ ~isJustTaken(t, med, sched)
    /\ ~isJustMissed(t, med, sched)

\* the status the store and the clock give the dose: what the page of a tab
\* holds for a dose whose buttons were clicked and that has no log
StatusNow(med, sched) ==
    status(findDoseLog(fetchTodaysLogsQuery(dose_logs, now), med, sched),
           now, sched)

\* C27: if a request to mark a dose as taken or as missed fails, the view
\* state of the dose is as before the click: the dose is not shown as
\* 'Medication Taken' or 'Medication Missed' and its buttons are there, in
\* the logging view and in Reminders.
C27_FailedRequestLeavesViewUnchanged ==
    \A t \in Tabs :
        ( /\ tab[t].pc = "done"
          /\ tab[t].client \in ViewClients
          /\ tab[t].res # "ok"
          /\ StatusNow(tab[t].med, tab[t].sched) \in {"pending", "late"} )
        => LET st == StatusNow(tab[t].med, tab[t].sched)
           IN /\ ~ShowsTaken(t, tab[t].med, tab[t].sched, st)
              /\ ~ShowsMissed(t, tab[t].med, tab[t].sched, st)
              /\ ShowsButtons(t, tab[t].med, tab[t].sched, st)

\* C30: when the owner of a medication clicks 'Mark as Taken' on a dose, in
\* the logging view or in Reminders, and the store answers, the request was
\* accepted by log_dose, a DoseLog of the occurrence is stored, and the next
\* classification pass shows the dose as Taken.
C30_MarkAsTakenIsStored ==
    \A t \in Tabs :
        ( /\ tab[t].pc = "done"
          /\ tab[t].client \in {"handleLogDose", "handleMarkAsTaken"}
          /\ Owns(tab[t].uid, tab[t].med) )
        => /\ tab[t].res = "ok"
           /\ \E r \in dose_logs :
                /\ r.id = tab[t].row
                /\ r.medication_id = tab[t].med
                /\ r.scheduled_time = tab[t].sched
           /\ LoadedStatus(tab[t].med, tab[t].sched, "taken")

(***************************************************************************)
(* Claims about the calls of logDose, checked under SpecCall.              *)
(***************************************************************************)
\* the row is the log of an occurrence: its medication exists, is active on
\* the day of its scheduled instant and has a dose at that instant
ValidSlot(r) ==
    /\ r.medication_id \in DOMAIN medications_tbl
    /\ LET m == medications_tbl[r.medication_id]
           day == startOfDay(r.scheduled_time)
       IN /\ ActiveOn(m, day)
          /\ r.scheduled_time \in Occurrences(day, m.frequency_per_day)

\* C22: every stored DoseLog's (medication_id, scheduled_time) is the
\* scheduled instant of an occurrence the schedule generator produces for
\* that medication: a slot of a day within the medication's active range.
C22_EveryLogMatchesAnOccurrence ==
    \A r \in dose_logs : ValidSlot(r)

(***************************************************************************)
(* Claims about the pages over unvalidated inputs and around midnight,     *)
(* checked under SpecPage.                                                 *)
(***************************************************************************)
\* the flags of a listed dose are those the single instant t gives
FlagsAt(d, t) ==
    /\ d.isToday = isToday(d.scheduledTime, t)
    /\ d.isTomorrow = isTomorrow(d.scheduledTime, t)
    /\ d.isUpcoming = ( /\ ~isToday(d.scheduledTime, t)
                        /\ ~isTomorrow(d.scheduledTime, t)
                        /\ isFuture(d.scheduledTime, t) )
    /\ d.isDue = isWithinInterval(t, d.scheduledTime,
                                  addHours(d.scheduledTime, GraceHours))
    /\ remIncluded(t, d.scheduledTime)

\* the dose is in exactly one of the lists Today, Tomorrow and Upcoming
OneBucket(d) ==
    Cardinality({ b \in {"isToday", "isTomorrow", "isUpcoming"} : d[b] }) = 1

\* C23: within one generation pass of Reminders the clock is read once:
\* there is one instant that every flag of every listed dose agrees with,
\* and every listed dose is in exactly one of Today, Tomorrow and Upcoming,
\* also when the pass runs across midnight.
C23_OneClockReadPerPass ==
    /\ \E t \in PageInstants :
         \A j \in 1 .. Len(remScheduledDoses) : FlagsAt(remScheduledDoses[j], t)
    /\ \A j \in 1 .. Len(remScheduledDoses) : OneBucket(remScheduledDoses[j])

\* a page holds a medication whose frequency_per_day is not positive
HoldsInvalid(meds) ==
    \E n \in 1 .. Len(meds) : meds[n].frequency_per_day <= 0

\* C24: a medication with frequency_per_day <= 0 and a date range whose
\* start is after its end are rejected before any occurrence is generated
\* and before any query is issued: no page has generated a schedule from a
\* list with such a medication, and the Reports page has had no answer from
\* the store for such a range.
C24_InvalidInputRejected ==
    /\ HoldsInvalid(medications) => scheduledDoses = <<>>
    /\ HoldsInvalid(remMedications) => remScheduledDoses = <<>>
    /\ reports.range[1] <= reports.range[2]

(***************************************************************************)
(* Claims about the failures of the summary call, checked under            *)
(* SpecSummary.                                                            *)
(***************************************************************************)
\* what the store can answer to the summary call made with the given keys
SummaryAnswers(keys) ==
    ServeSummary(keys, SummaryUser, now, dose_logs, medications_tbl)

\* C25: a failure of the store call behind a view is shown as an error and
\* never as data: the Dashboard shows a summary only if the store can have
\* answered its call with one, and the Reports page shows its error when
\* every answer to its call is an error.
C25_StoreFailureSurfaced ==
    /\ adherence.kind = "data"
         => \E out \in SummaryAnswers(FetchAdherenceDataKeys) :
               out.kind = "data"
    /\ ( /\ reports # NoReport
         /\ \A out \in SummaryAnswers(FetchDataKeys) : out.kind = "error" )
         => reports.failed

(***************************************************************************)
(* Claims about the loading of the Reminders page, checked under SpecView. *)
(***************************************************************************)
\* C28: in the Reminders view, in whatever order the medications fetch and
\* the dose-logs fetch complete, once both have completed the list shown
\* has no dose with a matching dose log.
C28_NoLoggedDoseListed ==
    (Len(remMedications) > 0 /\ doseLogs # {})
    => \A j \in 1 .. Len(remScheduledDoses) :
         ~findDoseLog(doseLogs, remScheduledDoses[j].medication,
                      remScheduledDoses[j].scheduledTime)

(***************************************************************************)
(* Claims about the doses of the day before, checked under SpecPage.       *)
(***************************************************************************)
\* the logging view has been loaded at this instant
LogLoadedNow ==
    /\ Len(medications) > 0
    /\ medications = fetchMedicationsQuery(medications_tbl, now)
    /\ todaysLogs = fetchTodaysLogsQuery(dose_logs, now)
    /\ scheduledDoses = generateScheduledDoses(medications, todaysLogs, now)

\* the Reminders page has been loaded at this instant
RemLoadedNow ==
    /\ Len(remMedications) > 0
    /\ remMedications = remFetchMedicationsQuery(medications_tbl, now)
    /\ doseLogs = fetchDoseLogsQuery(dose_logs, now)
    /\ remScheduledDoses = remGenerateScheduledDoses(remMedications, doseLogs, now)

\* the occurrences of yesterday and of today, of the medications active on
\* that day, that have no log and are within their four hours at now
DueNow ==
    UNION { UNION { { [medication |-> m, scheduledTime |-> s] :
                        s \in { o \in Occurrences(day,
                                        medications_tbl[m].frequency_per_day) :
                                  o <= now /\ now <= o + 4 * HourSec } } :
                    day \in { d \in { startOfDay(now) - DaySec, startOfDay(now) } :
                                ActiveOn(medications_tbl[m], d) } } :
            m \in DOMAIN medications_tbl }

\* C29: at every instant every unlogged occurrence with scheduledInstant <=
\* now <= scheduledInstant + 4h is shown as late by the logging view and as
\* due by Reminders, also an occurrence of the evening before whose four
\* hours reach midnight.
C29_EveryDueDoseShown ==
    \A d \in DueNow :
        ~Logged(d) =>
          /\ LogLoadedNow =>
               \E k \in 1 .. Len(scheduledDoses) :
                   /\ scheduledDoses[k].medication = d.medication
                   /\ scheduledDoses[k].scheduledTime = d.scheduledTime
                   /\ scheduledDoses[k].status = "late"
          /\ RemLoadedNow => RemListedDue(d, TRUE)

=============================================================================
